---- MODULE Spec2Model ----
(***************************************************************************)
(* Voice-command interpretation of the mini store backend                  *)
(* (services/nlp_service.py): the lexical normalizer, the intent           *)
(* classifier, the quantity extractor and the parse_command orchestrator.  *)
(* A text is a TLA+ string; characters are strings of length 1.            *)
(***************************************************************************)
EXTENDS Integers, Sequences, FiniteSets, TLC

\* ------------------------------------------------------------------ bounds
\* Longest input of the pure-function specification, in words.
MaxWords == 3
\* Longest command given to parse_command, in words.
MaxCmdWords == 3

\* the longest catalog given to a recommendation function
MaxCatalog == 3

\* the longest purchase history given to get_personalized_recommendations
MaxHistory == 3

\* the number of requests to the cart routes
MaxRequests == 2

\* --------------------------------------------------------------- characters
\* The characters of the model in code-point order.
Alphabet == " '0123456789ABCDEFGHIJKLMNOPQRSTUVWXYZ_abcdefghijklmnopqrstuvwxyz"

Char(s, i) == SubSeq(s, i, i)

\* F(e): the expression e is evaluated once and F applied to its value
With(e, F(_)) == CHOOSE r \in {F(x) : x \in {e}} : TRUE

Ord(c) == CHOOSE i \in 1..Len(Alphabet) : Char(Alphabet, i) = c

IsSpace(c) == c = " "

Digits == {"0", "1", "2", "3", "4", "5", "6", "7", "8", "9"}

IsDigit(c) == c \in Digits

\* int() of one decimal digit
DigitVal(c) ==
  ("0" :> 0 @@ "1" :> 1 @@ "2" :> 2 @@ "3" :> 3 @@ "4" :> 4 @@
   "5" :> 5 @@ "6" :> 6 @@ "7" :> 7 @@ "8" :> 8 @@ "9" :> 9)[c]

\* re's \w on the characters of the model
IsWordChar(c) == ~IsSpace(c) /\ c # "'"

LowerOf ==
  [ A |-> "a", B |-> "b", C |-> "c", D |-> "d", E |-> "e", F |-> "f", G |-> "g",
    H |-> "h", I |-> "i", J |-> "j", K |-> "k", L |-> "l", M |-> "m", N |-> "n",
    O |-> "o", P |-> "p", Q |-> "q", R |-> "r", S |-> "s", T |-> "t", U |-> "u",
    V |-> "v", W |-> "w", X |-> "x", Y |-> "y", Z |-> "z" ]

\* str.lower() on one character
LowerChar(c) == IF c \in DOMAIN LowerOf THEN LowerOf[c] ELSE c

RECURSIVE LowerFrom(_, _)
LowerFrom(s, i) ==
  IF i > Len(s) THEN "" ELSE LowerChar(Char(s, i)) \o LowerFrom(s, i + 1)

\* str.lower()
Lower(s) == LowerFrom(s, 1)

\* `needle in haystack` on strings
Contains(haystack, needle) ==
  \E i \in 1..(Len(haystack) - Len(needle) + 1) :
    SubSeq(haystack, i, i + Len(needle) - 1) = needle

RECURSIVE SplitFrom(_, _, _)
SplitFrom(s, i, cur) ==
  IF i > Len(s)
    THEN IF cur = "" THEN <<>> ELSE <<cur>>
    ELSE IF IsSpace(Char(s, i))
           THEN IF cur = "" THEN SplitFrom(s, i + 1, "")
                            ELSE <<cur>> \o SplitFrom(s, i + 1, "")
           ELSE SplitFrom(s, i + 1, cur \o Char(s, i))

\* str.split(): the maximal runs of non-whitespace characters
Split(s) == SplitFrom(s, 1, "")

RECURSIVE Join(_)
\* " ".join(words)
Join(words) ==
  IF Len(words) = 0 THEN ""
  ELSE IF Len(words) = 1 THEN words[1]
  ELSE words[1] \o " " \o Join(Tail(words))

\* str.strip()
Strip(s) ==
  IF \A i \in 1..Len(s) : IsSpace(Char(s, i)) THEN ""
  ELSE LET first == CHOOSE i \in 1..Len(s) :
                      ~IsSpace(Char(s, i)) /\ \A j \in 1..(i - 1) : IsSpace(Char(s, j))
           last  == CHOOSE i \in 1..Len(s) :
                      ~IsSpace(Char(s, i)) /\ \A j \in (i + 1)..Len(s) : IsSpace(Char(s, j))
       IN SubSeq(s, first, last)

\* ------------------------------------------------------- lexical normalizer
COMMON_VOICE_CORRECTIONS ==
  [ cut |-> "cart", kat |-> "cart", kart |-> "cart", caught |-> "cart",
    cot |-> "cart", cat |-> "cart",
    ad |-> "add", had |-> "add", at |-> "add", ed |-> "add",
    remov |-> "remove", remove |-> "remove", delete |-> "remove",
    so |-> "show", sho |-> "show",
    apples |-> "apple", aple |-> "apple", aplle |-> "apple",
    milk |-> "milk", melk |-> "milk", milke |-> "milk",
    bred |-> "bread", brd |-> "bread",
    bananas |-> "banana", bannana |-> "banana", banna |-> "banana",
    tomatos |-> "tomato", tomatoes |-> "tomato",
    potatos |-> "potato", potatoes |-> "potato" ]

FillerWords == {"the", "my", "to", "a", "an"}

\* the loop with the filler words kept
CorrectWordsKeepFillers(words) ==
  [i \in 1..Len(words) |->
     IF words[i] \in DOMAIN COMMON_VOICE_CORRECTIONS
       THEN COMMON_VOICE_CORRECTIONS[words[i]] ELSE words[i]]

RECURSIVE CorrectWords(_)
\* the loop of correct_voice_input over the words
CorrectWords(words) ==
  IF Len(words) = 0 THEN <<>>
  ELSE IF Head(words) \in FillerWords THEN CorrectWords(Tail(words))
  ELSE <<IF Head(words) \in DOMAIN COMMON_VOICE_CORRECTIONS
           THEN COMMON_VOICE_CORRECTIONS[Head(words)] ELSE Head(words)>>
       \o CorrectWords(Tail(words))

correct_voice_input(text) == Join(CorrectWords(Split(Lower(text))))

\* --------------------------------------------------------- intent classifier
ViewCartPhrases ==
  {"show cart", "view cart", "my cart", "open cart", "check cart", "see cart",
   "what's in my cart", "cart items"}

ClearCartPhrases ==
  {"clear cart", "empty cart", "remove all", "delete all", "clear my cart",
   "empty my cart"}

AddWords == {"add", "buy", "get", "purchase", "i want", "i need"}

RemoveWords == {"remove", "delete", "cancel", "take out", "drop"}

SearchWords ==
  {"find", "search", "show", "look for", "where is", "do you have", "tell me about"}

ListPhrases == {"list", "show all", "available", "what do you have", "all products"}

\* any(phrase in text for phrase in phrases)
AnyIn(phrases, text) == \E p \in phrases : Contains(text, p)

\* the rule chain with the add rule tried before the cart phrases
ClassifyRulesAddFirst(t) ==
  IF AnyIn(AddWords, t) THEN "add_to_cart"
  ELSE IF AnyIn(ViewCartPhrases, t) THEN "view_cart"
  ELSE IF AnyIn(ClearCartPhrases, t) THEN "clear_cart"
  ELSE IF AnyIn(RemoveWords, t) THEN "remove_from_cart"
  ELSE IF AnyIn(SearchWords, t) THEN "search_product"
  ELSE IF AnyIn(ListPhrases, t) THEN "list_products"
  ELSE "search_product"

\* the rule chain with the remove rule tried before the clear-cart phrases
ClassifyRulesRemoveFirst(t) ==
  IF AnyIn(ViewCartPhrases, t) THEN "view_cart"
  ELSE IF AnyIn(RemoveWords, t) THEN "remove_from_cart"
  ELSE IF AnyIn(ClearCartPhrases, t) THEN "clear_cart"
  ELSE IF AnyIn(AddWords, t) THEN "add_to_cart"
  ELSE IF AnyIn(SearchWords, t) THEN "search_product"
  ELSE IF AnyIn(ListPhrases, t) THEN "list_products"
  ELSE "search_product"

\* the rule chain without the list rule
ClassifyRulesNoList(t) ==
  IF AnyIn(ViewCartPhrases, t) THEN "view_cart"
  ELSE IF AnyIn(ClearCartPhrases, t) THEN "clear_cart"
  ELSE IF AnyIn(AddWords, t) THEN "add_to_cart"
  ELSE IF AnyIn(RemoveWords, t) THEN "remove_from_cart"
  ELSE "search_product"

\* the rule chain of detect_intent on the corrected text
ClassifyRules(t) ==
  IF AnyIn(ViewCartPhrases, t) THEN "view_cart"
  ELSE IF AnyIn(ClearCartPhrases, t) THEN "clear_cart"
  ELSE IF AnyIn(AddWords, t) THEN "add_to_cart"
  ELSE IF AnyIn(RemoveWords, t) THEN "remove_from_cart"
  ELSE IF AnyIn(SearchWords, t) THEN "search_product"
  ELSE IF AnyIn(ListPhrases, t) THEN "list_products"
  ELSE "search_product"

detect_intent(text) == ClassifyRules(correct_voice_input(Lower(text)))

\* -------------------------------------------------------- quantity extractor
\* word_to_num in the iteration order of the dict literal
word_to_num ==
  << <<"one", 1>>, <<"two", 2>>, <<"three", 3>>, <<"four", 4>>, <<"five", 5>>,
     <<"six", 6>>, <<"seven", 7>>, <<"eight", 8>>, <<"nine", 9>>, <<"ten", 10>>,
     <<"eleven", 11>>, <<"twelve", 12>>, <<"fifteen", 15>>, <<"twenty", 20>>,
     <<"a", 1>>, <<"an", 1>>, <<"single", 1>>, <<"couple", 2>>, <<"few", 3>> >>

\* int() of a run of decimal digits
RECURSIVE DigitsToInt(_)
DigitsToInt(s) ==
  IF Len(s) = 0 THEN 0
  ELSE 10 * DigitsToInt(SubSeq(s, 1, Len(s) - 1))
       + DigitVal(Char(s, Len(s)))

\* the starts i and ends j of the matches of \b(\d+)\b in text
DigitRunAt(text, i, j) ==
  /\ i <= j
  /\ \A k \in i..j : IsDigit(Char(text, k))
  /\ (i = 1 \/ ~IsWordChar(Char(text, i - 1)))
  /\ (j = Len(text) \/ ~IsWordChar(Char(text, j + 1)))

HasDigitRun(text) == \E i, j \in 1..Len(text) : DigitRunAt(text, i, j)

\* re.search(r'\b(\d+)\b', text).group(1): the leftmost match
FirstDigitRun(text) ==
  LET i == CHOOSE a \in 1..Len(text) :
             /\ \E b \in 1..Len(text) : DigitRunAt(text, a, b)
             /\ \A c \in 1..(a - 1) : ~\E b \in 1..Len(text) : DigitRunAt(text, c, b)
      j == CHOOSE b \in 1..Len(text) : DigitRunAt(text, i, b)
  IN SubSeq(text, i, j)

extract_quantity(text) ==
  LET text_lower == Lower(text)
      hits == {k \in 1..Len(word_to_num) : Contains(text_lower, word_to_num[k][1])}
  IN IF hits # {}
       THEN word_to_num[CHOOSE k \in hits : \A h \in hits : k <= h][2]
       ELSE IF HasDigitRun(text) THEN DigitsToInt(FirstDigitRun(text))
       ELSE 1

\* ------------------------------------------------ fuzzy scores (rapidfuzz)
\* A score is the rational n/d in 0..100, kept exact.
Score(n, d) == [n |-> n, d |-> d]

ScoreLess(a, b) == a.n * b.d < b.n * a.d

ScoreEq(a, b) == a.n * b.d = b.n * a.d

ScoreMax(a, b) == IF ScoreLess(a, b) THEN b ELSE a

Max2(a, b) == IF a >= b THEN a ELSE b

\* one row of the longest-common-subsequence table: cur[j + 1] is the length
\* for the prefix of s1 ending in the character a and the first j characters of
\* s2 (Len(cur) = j throughout)
RECURSIVE LcsRow(_, _, _, _, _)
LcsRow(prev, a, s2, j, cur) ==
  IF j > Len(s2) THEN cur
  ELSE With(Append(cur, IF a = Char(s2, j) THEN prev[j] + 1
                        ELSE Max2(prev[j + 1], cur[j])),
            LAMBDA next : LcsRow(prev, a, s2, j + 1, next))

RECURSIVE LcsRows(_, _, _, _)
\* the table row by row; the last cell of the last row is the result
LcsRows(s1, s2, i, prev) ==
  IF i > Len(s1) THEN prev[Len(s2) + 1]
  ELSE With(LcsRow(prev, Char(s1, i), s2, 1, <<0>>),
            LAMBDA row : LcsRows(s1, s2, i + 1, row))

LcsLen(s1, s2) ==
  With(<<s1, s2>>,
       LAMBDA p : LcsRows(p[1], p[2], 1, [j \in 1..(Len(p[2]) + 1) |-> 0]))

\* the insertions and deletions that turn s1 into s2
IndelDistance(s1, s2) == Len(s1) + Len(s2) - 2 * LcsLen(s1, s2)

\* 100 - 100 * dist / lensum
NormDistance(dist, lensum) ==
  IF lensum > 0 THEN Score(100 * (lensum - dist), lensum) ELSE Score(100, 1)

\* fuzz.ratio
Ratio(s1, s2) == NormDistance(IndelDistance(s1, s2), Len(s1) + Len(s2))

\* code-point order of strings
RECURSIVE StrLess(_, _)
StrLess(a, b) ==
  IF Len(a) = 0 THEN Len(b) > 0
  ELSE IF Len(b) = 0 THEN FALSE
  ELSE IF Char(a, 1) = Char(b, 1)
         THEN StrLess(SubSeq(a, 2, Len(a)), SubSeq(b, 2, Len(b)))
  ELSE Ord(Char(a, 1)) < Ord(Char(b, 1))

RECURSIVE SortedTokens(_)
\* sorted(tokens) of a set of words
SortedTokens(tokens) ==
  IF tokens = {} THEN <<>>
  ELSE With(CHOOSE t \in tokens : \A u \in tokens \ {t} : StrLess(t, u),
            LAMBDA least : <<least>> \o SortedTokens(tokens \ {least}))

\* set(s.split())
TokenSet(s) == With(Split(s), LAMBDA words : {words[i] : i \in 1..Len(words)})

BoolLen(n) == IF n # 0 THEN 1 ELSE 0

\* the three ratios of token_set_ratio, from the joined differences and the
\* length of the joined intersection
TokenSetScore(diff_ab, diff_ba, sect_len) ==
  LET ab_len      == Len(diff_ab)
      ba_len      == Len(diff_ba)
      sect_ab_len == sect_len + BoolLen(sect_len) + ab_len
      sect_ba_len == sect_len + BoolLen(sect_len) + ba_len
      result      == NormDistance(IndelDistance(diff_ab, diff_ba),
                                  sect_ab_len + sect_ba_len)
      sect_ab_ratio == NormDistance(BoolLen(sect_len) + ab_len, sect_len + sect_ab_len)
      sect_ba_ratio == NormDistance(BoolLen(sect_len) + ba_len, sect_len + sect_ba_len)
  IN IF sect_len = 0 THEN result
     ELSE ScoreMax(result, ScoreMax(sect_ab_ratio, sect_ba_ratio))

\* token_set_ratio on the two token sets
TokenSetRatioOf(tokens_a, tokens_b) ==
  IF tokens_a = {} \/ tokens_b = {} THEN Score(0, 1)
  ELSE IF tokens_a \cap tokens_b # {}
          /\ (tokens_a \ tokens_b = {} \/ tokens_b \ tokens_a = {})
    THEN Score(100, 1)
  ELSE With(<<Join(SortedTokens(tokens_a \ tokens_b)),
              Join(SortedTokens(tokens_b \ tokens_a)),
              Len(Join(SortedTokens(tokens_a \cap tokens_b)))>>,
            LAMBDA d : TokenSetScore(d[1], d[2], d[3]))

\* fuzz.token_set_ratio
token_set_ratio(s1, s2) ==
  With(<<TokenSet(s1), TokenSet(s2)>>, LAMBDA t : TokenSetRatioOf(t[1], t[2]))

\* the substrings of the longer string the shorter one is aligned with: its
\* proper prefixes and suffixes shorter than n, and every window of length n
Windows(longer, n) ==
  {SubSeq(longer, 1, i) : i \in 1..(n - 1)}
    \cup {SubSeq(longer, i, i + n - 1) : i \in 1..(Len(longer) - n + 1)}
    \cup {SubSeq(longer, i, Len(longer)) : i \in (Len(longer) - n + 2)..Len(longer)}

\* the best ratio of the shorter string over the windows of the longer one
PartialRatioImpl(shorter, longer) ==
  With({Ratio(shorter, w) : w \in Windows(longer, Len(shorter))} \cup {Score(0, 1)},
       LAMBDA scores : CHOOSE x \in scores : \A y \in scores : ~ScoreLess(x, y))

\* partial_ratio on two evaluated strings
PartialRatioOf(s1, s2) ==
  IF Len(s1) = 0 /\ Len(s2) = 0 THEN Score(100, 1)
  ELSE IF Len(s1) = 0 \/ Len(s2) = 0 THEN Score(0, 1)
  ELSE IF Len(s1) < Len(s2) THEN PartialRatioImpl(s1, s2)
  ELSE IF Len(s2) < Len(s1) THEN PartialRatioImpl(s2, s1)
  ELSE ScoreMax(PartialRatioImpl(s1, s2), PartialRatioImpl(s2, s1))

\* fuzz.partial_ratio
partial_ratio(s1, s2) == With(<<s1, s2>>, LAMBDA p : PartialRatioOf(p[1], p[2]))

\* ------------------------------------------------------------ catalog index
\* Python's None where a string is expected
None == "<None>"

\* The external source (products.json): found and parsed, missing, or
\* unreadable. Its data maps each category, in file order, to its items.
StoreData ==
  << <<"fruits", << [id |-> "p1", name |-> "Apple", price |-> 100, image |-> "apple.png"],
                    [id |-> "p2", name |-> "Pear", price |-> 0, image |-> "pear.png"] >> >>,
     <<"dairy",  << [id |-> "p3", name |-> "Fresh Milk", price |-> 60, image |-> "milk.png"] >> >>,
     <<"snacks", << [id |-> "p4", name |-> "PEAR", price |-> 110, image |-> "bar.png"] >> >> >>

Sources ==
  { [status |-> "missing", data |-> <<>>],
    [status |-> "unreadable", data |-> <<>>],
    [status |-> "ok", data |-> StoreData] }

\* the items of one category, tagged with it
TagItems(category, items) ==
  [i \in 1..Len(items) |->
     [id |-> items[i].id, name |-> items[i].name, price |-> items[i].price,
      image |-> items[i].image, category |-> category]]

RECURSIVE Flatten(_)
Flatten(data) ==
  IF Len(data) = 0 THEN <<>>
  ELSE TagItems(data[1][1], data[1][2]) \o Flatten(Tail(data))

load_products(src) == IF src.status # "ok" THEN <<>> ELSE Flatten(src.data)

\* ----------------------------------------------------- recommendation engine
Min2(a, b) == IF a <= b THEN a ELSE b

\* seq[:limit]
Take(seq, limit) == SubSeq(seq, 1, Min2(limit, Len(seq)))

Abs(x) == IF x < 0 THEN -x ELSE x

RECURSIVE OrderDesc(_, _)
\* list.sort(key, reverse=True) as the order of the indices: descending keys,
\* equal keys in their original order
OrderDesc(keys, remaining) ==
  IF remaining = {} THEN <<>>
  ELSE With(CHOOSE i \in remaining : \A k \in remaining :
              \/ ScoreLess(keys[k], keys[i])
              \/ (ScoreEq(keys[k], keys[i]) /\ i <= k),
            LAMBDA first : <<first>> \o OrderDesc(keys, remaining \ {first}))

SortDesc(items, keys) ==
  With(OrderDesc(keys, 1..Len(items)),
       LAMBDA order : [r \in 1..Len(items) |-> items[order[r]]])

\* abs(product["price"] - price) / price < num / den, for price # 0
PriceDiffBelow(diff, price, num, den) ==
  IF price > 0 THEN den * diff < num * price ELSE TRUE

\* the relevance score with the 30% tier extended to 50%
RelevanceScoreOneTier(product, anchor) ==
  (IF product.category = anchor.category THEN 50 ELSE 0)
  + (IF PriceDiffBelow(Abs(product.price - anchor.price), anchor.price, 5, 10) THEN 30
     ELSE 0)

\* the relevance score of one product against the anchor
RelevanceScore(product, anchor) ==
  (IF product.category = anchor.category THEN 50 ELSE 0)
  + (IF PriceDiffBelow(Abs(product.price - anchor.price), anchor.price, 3, 10) THEN 30
     ELSE IF PriceDiffBelow(Abs(product.price - anchor.price), anchor.price, 5, 10) THEN 15
     ELSE 0)

\* lines 137-159: the other products scored against the anchor, or the
\* ZeroDivisionError of the price division
RelatedTo(products, current, limit) ==
  With(SelectSeq(products, LAMBDA p : p.id # current.id),
       LAMBDA others :
         IF Len(others) > 0 /\ current.price = 0
           THEN [raised |-> TRUE, value |-> <<>>]
           ELSE With(SelectSeq([i \in 1..Len(others) |->
                                  [product |-> others[i],
                                   relevance_score |-> RelevanceScore(others[i], current)]],
                               LAMBDA r : r.relevance_score > 0),
                     LAMBDA related :
                       [raised |-> FALSE,
                        value |-> Take(SortDesc(related,
                                         [i \in 1..Len(related) |->
                                            Score(related[i].relevance_score, 1)]),
                                       limit)]))

\* get_related_recommendations on the loaded products
get_related_recommendations(products, product_id, limit) ==
  With({i \in 1..Len(products) : products[i].id = product_id},
       LAMBDA found :
         IF found = {} THEN [raised |-> FALSE, value |-> Take(products, limit)]
         ELSE RelatedTo(products, products[CHOOSE i \in found : \A k \in found : i <= k],
                        limit))

\* lines 166-171: the products that score above 40, with their scores
SimilarTo(products, term) ==
  SelectSeq([i \in 1..Len(products) |->
               [product |-> products[i],
                similarity_score |->
                  ScoreMax(partial_ratio(term, Lower(products[i].name)),
                           partial_ratio(term, Lower(products[i].category)))]],
            LAMBDA r : ScoreLess(Score(40, 1), r.similarity_score))

\* get_similar_products on the loaded products
get_similar_products(products, search_term, limit) ==
  With(<<products, Lower(search_term)>>,
       LAMBDA a :
         With(SimilarTo(a[1], a[2]),
              LAMBDA results :
                Take(SortDesc(results,
                              [i \in 1..Len(results) |-> results[i].similarity_score]),
                     limit)))

\* lines 390-399: the categories of the history, most frequent first, equal
\* counts in the order of their first occurrence
RECURSIVE FirstOccurrences(_, _)
FirstOccurrences(seq, seen) ==
  IF Len(seq) = 0 THEN <<>>
  ELSE IF Head(seq) \in seen THEN FirstOccurrences(Tail(seq), seen)
       ELSE <<Head(seq)>> \o FirstOccurrences(Tail(seq), seen \cup {Head(seq)})

UserCategories(user_history) ==
  SelectSeq([i \in 1..Len(user_history) |-> user_history[i].category] \o <<>>,
            LAMBDA c : c # None)

CountOf(seq, x) == Cardinality({i \in 1..Len(seq) : seq[i] = x})

\* sorted(category_counts.items(), ...), ascending instead
SortedCategoriesAscending(user_history) ==
  With(UserCategories(user_history),
       LAMBDA user_categories :
         With(FirstOccurrences(user_categories, {}),
              LAMBDA counted :
                SortDesc(counted,
                         [i \in 1..Len(counted) |->
                            Score(0 - CountOf(user_categories, counted[i]), 1)])))

SortedCategories(user_history) ==
  With(UserCategories(user_history),
       LAMBDA user_categories :
         With(FirstOccurrences(user_categories, {}),
              LAMBDA counted :
                SortDesc(counted,
                         [i \in 1..Len(counted) |->
                            Score(CountOf(user_categories, counted[i]), 1)])))

PurchasedIds(user_history) == {user_history[i].product_id : i \in 1..Len(user_history)}

InSeq(x, seq) == \E i \in 1..Len(seq) : seq[i] = x

\* one loop over the products (lines 405-411 for a category, lines 414-418
\* for every category: category = None): the unpurchased products not yet
\* recommended are appended until the limit is reached
RECURSIVE PickFrom(_, _, _, _, _, _)
PickFrom(products, i, category, purchased_ids, limit, recommendations) ==
  IF i > Len(products) THEN [recs |-> recommendations, full |-> FALSE]
  ELSE IF /\ products[i].id \notin purchased_ids
          /\ (category = None \/ products[i].category = category)
          /\ ~InSeq(products[i], recommendations)
         THEN With(Append(recommendations, products[i]),
                   LAMBDA next :
                     IF Len(next) >= limit THEN [recs |-> next, full |-> TRUE]
                     ELSE PickFrom(products, i + 1, category, purchased_ids, limit, next))
         ELSE PickFrom(products, i + 1, category, purchased_ids, limit, recommendations)

\* lines 404-411: the loop over the sorted categories
RECURSIVE PickByCategory(_, _, _, _, _, _)
PickByCategory(products, categories, k, purchased_ids, limit, recommendations) ==
  IF k > Len(categories) THEN [recs |-> recommendations, full |-> FALSE]
  ELSE With(PickFrom(products, 1, categories[k], purchased_ids, limit, recommendations),
            LAMBDA picked :
              IF picked.full THEN picked
              ELSE PickByCategory(products, categories, k + 1, purchased_ids, limit,
                                  picked.recs))

\* get_personalized_recommendations on the loaded products
get_personalized_recommendations(products, user_history, limit) ==
  IF user_history = <<>> THEN Take(products, limit)
  ELSE With(PickByCategory(products, SortedCategories(user_history), 1,
                           PurchasedIds(user_history), limit, <<>>),
            LAMBDA favorite :
              IF favorite.full THEN Take(favorite.recs, limit)
              ELSE Take(PickFrom(products, 1, None, PurchasedIds(user_history), limit,
                                 favorite.recs).recs,
                        limit))

\* --------------------------------------------------------- product resolver
RECURSIVE BestIndexLast(_, _, _)
\* the index of the last of the highest scores
BestIndexLast(scores, i, best) ==
  IF i > Len(scores) THEN best
  ELSE IF best = 0 \/ ~ScoreLess(scores[i], scores[best])
         THEN BestIndexLast(scores, i + 1, i)
         ELSE BestIndexLast(scores, i + 1, best)

RECURSIVE BestIndex(_, _, _)
\* the index of the first of the highest scores
BestIndex(scores, i, best) ==
  IF i > Len(scores) THEN best
  ELSE IF best = 0 \/ ScoreLess(scores[best], scores[i])
         THEN BestIndex(scores, i + 1, i)
         ELSE BestIndex(scores, i + 1, best)

\* process.extractOne(query, choices, scorer=fuzz.token_set_ratio): the first
\* choice with the highest score
extractOne(query, choices) ==
  With(<<query, choices>>,
       LAMBDA a :
         With([i \in 1..Len(a[2]) |-> token_set_ratio(a[1], a[2][i])] \o <<>>,
              LAMBDA scores :
                With(BestIndex(scores, 1, 0),
                     LAMBDA best :
                       IF best = 0 THEN [found |-> FALSE]
                       ELSE [found |-> TRUE, choice |-> a[2][best],
                             score |-> scores[best]])))

\* ------------------------------------------------------------------- inputs
Vocabulary ==
  {"", "show", "cart", "my", "clear", "items", "remove", "add", "5", "0", "all",
   "list"}

WordSeqs(vocabulary, n) == UNION {[1..k -> vocabulary] : k \in 0..n}

\* the example inputs of the quantity extractor
QuantityExamples ==
  {"add two bananas", "add 5 apples", "add apple", "two apples", "apples 12 5"}

\* inputs with the other clear-cart phrases, and in upper case
CartExamples ==
  {"empty cart", "remove empty cart", "empty my cart", "please empty cart items",
   "Show Cart", "add Show Cart", "CLEAR CART", "remove all"}

\* inputs with the phrases of the list rule
ListExamples ==
  {"what do you have", "what is available", "all products", "show all products",
   "buy all products", "price list"}

Texts ==
  {Join(ws) : ws \in WordSeqs(Vocabulary, MaxWords)} \cup QuantityExamples
    \cup CartExamples \cup ListExamples

\* the commands given to parse_command: the word sequences over a small
\* vocabulary and the example commands
CommandVocabulary == {"", "my", "show", "cart", "add", "apples", "0"}

CommandExamples ==
  {"add two apples", "buy 0 milk", "buy milk", "remove milk", "remove apples",
   "remove pear", "pear apple", "clear cart", "list", "find pear", "Show My Cart", "the  My"}

\* text is None, or a string
CommandInputs ==
  {[none |-> TRUE, s |-> ""]}
    \cup {[none |-> FALSE, s |-> t] :
            t \in {Join(ws) : ws \in WordSeqs(CommandVocabulary, MaxCmdWords)}
                    \cup CommandExamples}

UserIds == {"guest"}

\* what the cart collaborator answers to a read: the number of items, with or
\* without a message of its own
CartReplies == {[items |-> 0, has_message |-> TRUE], [items |-> 2, has_message |-> FALSE]}

\* a collaborator call returns, or raises (unreachable, timed out, unparsable)
Outcomes == {"ok", "raise"}

\* -------------------------------------------------------------------- state
VARIABLES
  fnText, fnDone, fnIntent, fnQty,  \* a pure function's input and results
  fnCatalog,   \* the loaded products a recommendation function works on
  fnAnchor,    \* the product_id argument of get_related_recommendations
  fnHistory,   \* the user_history argument of get_personalized_recommendations
  fnLimit,     \* the limit argument
  fnRecs,      \* what the recommendation function returned
  source,      \* the external catalog source
  pc,          \* where the parse_command invocation stands
  input,       \* its text argument
  user_id,     \* its user_id argument
  text,        \* the local text, corrected
  result,      \* the result dictionary
  products,    \* the local products
  matched,     \* the local matched_product and best_match score
  calls,       \* the cart collaborator requests made, in order
  engine,      \* the recommendation engine invocations made, in order
  loads,       \* the number of load_products calls made
  classified,  \* whether detect_intent was called
  cartDb,      \* the cart document of the user in db.carts
  cartReqs,    \* the requests to the cart routes: position and locals of each
  completed    \* the cart requests that completed, in the order of completion

recVars == <<fnCatalog, fnAnchor, fnHistory, fnLimit, fnRecs>>

fnVars == <<fnText, fnDone, fnIntent, fnQty, recVars>>

cmdVars ==
  <<source, pc, input, user_id, text, result, products, matched, calls, engine,
    loads, classified>>

cartVars == <<cartDb, cartReqs, completed>>

vars == <<fnVars, cmdVars, cartVars>>

\* the result dictionary parse_command starts from; confidence is kept in
\* hundredths, the message by its kind
InitialResult ==
  [intent |-> "unknown", product_name |-> None, product_id |-> None, quantity |-> 1,
   category |-> None, confidence |-> 0, recommendations |-> <<>>, message |-> "",
   cart |-> None]

NoMatch == [found |-> FALSE]

RecIdle ==
  /\ fnCatalog = <<>>
  /\ fnAnchor = None
  /\ fnHistory = <<>>
  /\ fnLimit = 5
  /\ fnRecs = <<>>

FnIdle ==
  /\ fnText = ""
  /\ fnDone = {}
  /\ fnIntent = ""
  /\ fnQty = 1
  /\ RecIdle

\* no cart document yet
NoCart == [exists |-> FALSE, items |-> <<>>]

IdleRequest ==
  [pc |-> "idle", op |-> "", productId |-> None, productName |-> None, qty |-> 0,
   items |-> <<>>]

CartIdle ==
  /\ cartDb = NoCart
  /\ cartReqs = [r \in 1..MaxRequests |-> IdleRequest]
  /\ completed = <<>>

CmdIdle ==
  /\ pc = "idle"
  /\ input = [none |-> TRUE, s |-> ""]
  /\ user_id = None
  /\ text = ""
  /\ result = InitialResult
  /\ products = <<>>
  /\ matched = NoMatch
  /\ calls = <<>>
  /\ engine = <<>>
  /\ loads = 0
  /\ classified = FALSE

\* --------------------------------------- the pure functions, applied to texts
FnInit ==
  /\ fnText \in Texts
  /\ fnDone = {}
  /\ fnIntent = ""
  /\ fnQty = 1
  /\ RecIdle
  /\ source = [status |-> "missing", data |-> <<>>]
  /\ CmdIdle
  /\ CartIdle

CallDetectIntent ==
  /\ "detect_intent" \notin fnDone
  /\ fnIntent' = detect_intent(fnText)
  /\ fnDone' = fnDone \cup {"detect_intent"}
  /\ UNCHANGED <<fnText, fnQty, recVars, cmdVars, cartVars>>

CallExtractQuantity ==
  /\ "extract_quantity" \notin fnDone
  /\ fnQty' = extract_quantity(fnText)
  /\ fnDone' = fnDone \cup {"extract_quantity"}
  /\ UNCHANGED <<fnText, fnIntent, recVars, cmdVars, cartVars>>

FnNext == CallDetectIntent \/ CallExtractQuantity

SpecFn == FnInit /\ [][FnNext]_vars

\* ------------------------------------------------------------ parse_command
Init ==
  /\ FnIdle
  /\ source \in Sources
  /\ CmdIdle
  /\ CartIdle

\* the check of the loaded catalog, left out
CatalogUnavailableNever(loaded) == FALSE

\* line 274: not products
CatalogUnavailable(loaded) == loaded = <<>>

\* (text or "").lower().strip(), corrected
PrepareText(inp) == correct_voice_input(Strip(Lower(IF inp.none THEN "" ELSE inp.s)))

\* lines 246-276: the text is prepared; empty text returns; the intent and
\* the quantity are set and the catalog is loaded; an empty catalog returns
ParseStart(inp, uid) ==
  /\ pc = "idle"
  /\ input' = inp
  /\ user_id' = uid
  /\ \E t \in {PrepareText(inp)}, loaded \in {load_products(source)} :
       /\ text' = t
       /\ IF t = ""
            THEN /\ result' = [InitialResult EXCEPT !.message = "didnt_hear"]
                 /\ pc' = "returned"
                 /\ UNCHANGED <<products, loads, classified>>
            ELSE /\ classified' = TRUE
                 /\ loads' = loads + 1
                 /\ products' = loaded
                 /\ result' = [InitialResult EXCEPT
                                 !.intent = detect_intent(t),
                                 !.quantity = extract_quantity(t),
                                 !.message = IF CatalogUnavailable(loaded)
                                               THEN "catalog_unavailable"
                                               ELSE ""]
                 /\ pc' = IF CatalogUnavailable(loaded) THEN "returned"
                          ELSE "dispatch"
  /\ UNCHANGED <<fnVars, cartVars, source, matched, calls, engine>>

\* lines 279-287: the cart is read, outside any try
ViewCart(outcome, reply) ==
  /\ pc = "dispatch"
  /\ result.intent = "view_cart"
  /\ calls' = Append(calls, [op |-> "get", user |-> user_id, outcome |-> outcome])
  /\ IF outcome = "raise"
       THEN /\ pc' = "raised"
            /\ UNCHANGED result
       ELSE /\ pc' = "returned"
            /\ result' = [result EXCEPT
                            !.cart = reply,
                            !.message = IF reply.has_message THEN "cart_message"
                                        ELSE "cart_count",
                            !.confidence = 100]
  /\ UNCHANGED <<fnVars, cartVars, source, input, user_id, text, products, matched, engine,
                 loads, classified>>

\* lines 289-294: the cart is cleared, outside any try
ClearCart(outcome) ==
  /\ pc = "dispatch"
  /\ result.intent = "clear_cart"
  /\ calls' = Append(calls, [op |-> "clear", user |-> user_id, outcome |-> outcome])
  /\ IF outcome = "raise"
       THEN /\ pc' = "raised"
            /\ UNCHANGED result
       ELSE /\ pc' = "returned"
            /\ result' = [result EXCEPT !.message = "cleared", !.confidence = 100]
  /\ UNCHANGED <<fnVars, cartVars, source, input, user_id, text, products, matched, engine,
                 loads, classified>>

\* the result of the list_products branch
ListResult(res, similar) ==
  [res EXCEPT !.message = "catalog_size", !.recommendations = similar,
              !.confidence = 100]

\* lines 296-300
ListProducts ==
  /\ pc = "dispatch"
  /\ result.intent = "list_products"
  /\ \E loaded \in {load_products(source)} :
       \E similar \in {get_similar_products(loaded, text, 5)} :
         /\ engine' = Append(engine, [strategy |-> "similar", catalog |-> loaded,
                                      value |-> similar])
         /\ result' = ListResult(result, similar)
  /\ loads' = loads + 1
  /\ pc' = "returned"
  /\ UNCHANGED <<fnVars, cartVars, source, input, user_id, text, products, matched, calls,
                 classified>>

AcceptScore == 60

\* round(score / 100, 2) in hundredths, truncating instead
ConfidencesTruncated(score) == {score.n \div score.d}

\* round(score / 100, 2) in hundredths: the nearest hundredth; at an exact
\* tie the binary value of score / 100 decides which neighbour it is
Confidences(score) ==
  IF (2 * score.n) % (2 * score.d) = score.d
    THEN {score.n \div score.d, score.n \div score.d + 1}
    ELSE {(2 * score.n + score.d) \div (2 * score.d)}

\* lines 303-308: the best match over the lowercased names and, when it is
\* accepted, the first product of that name
Resolve(query, catalog) ==
  With([i \in 1..Len(catalog) |-> Lower(catalog[i].name)] \o <<>>,
       LAMBDA product_names :
         With(extractOne(query, product_names),
              LAMBDA best_match :
                IF best_match.found /\ ~ScoreLess(best_match.score, Score(AcceptScore, 1))
                  THEN LET named == {i \in 1..Len(catalog) :
                                       product_names[i] = best_match.choice}
                       IN [found |-> TRUE, score |-> best_match.score,
                           product |-> catalog[CHOOSE i \in named : \A k \in named : i <= k]]
                  ELSE NoMatch))

\* lines 302-316
ResolveProduct ==
  /\ pc = "dispatch"
  /\ result.intent \notin {"view_cart", "clear_cart", "list_products"}
  /\ \E m \in {Resolve(text, products)} :
        IF m.found
          THEN /\ matched' = m
               /\ \E confidence \in Confidences(m.score) :
                    result' = [result EXCEPT !.product_name = m.product.name,
                                             !.product_id = m.product.id,
                                             !.category = m.product.category,
                                             !.confidence = confidence]
               /\ pc' = "matched"
          ELSE /\ pc' = "unmatched"
               /\ UNCHANGED <<matched, result>>
  /\ UNCHANGED <<fnVars, cartVars, source, input, user_id, text, products, calls, engine,
                 loads, classified>>

\* the request body of the add, with the quantity left at 1
AddRequestOne(uid, product, qty) ==
  [op |-> "add", user |-> uid, productName |-> product.name,
   productId |-> product.id, qty |-> 1, price |-> product.price,
   image |-> product.image, category |-> product.category]

\* lines 322-333: the request of the add
AddRequest(uid, product, qty) ==
  [op |-> "add", user |-> uid, productName |-> product.name,
   productId |-> product.id, qty |-> qty, price |-> product.price,
   image |-> product.image, category |-> product.category]

\* lines 320-339
CartAdd(outcome) ==
  /\ pc = "matched"
  /\ result.intent = "add_to_cart"
  /\ calls' = Append(calls, AddRequest(user_id, matched.product, result.quantity)
                              @@ [outcome |-> outcome])
  /\ result' = [result EXCEPT
                  !.message = IF outcome = "ok" THEN "added" ELSE "added_sync_pending"]
  /\ pc' = "related"
  /\ UNCHANGED <<fnVars, cartVars, source, input, user_id, text, products, matched, engine,
                 loads, classified>>

\* lines 341-354
CartRemove(outcome) ==
  /\ pc = "matched"
  /\ result.intent = "remove_from_cart"
  /\ calls' = Append(calls, [op |-> "remove", user |-> user_id,
                             productName |-> matched.product.name,
                             productId |-> matched.product.id, outcome |-> outcome])
  /\ result' = [result EXCEPT
                  !.message = IF outcome = "ok" THEN "removed" ELSE "removed_sync_pending"]
  /\ pc' = "related"
  /\ UNCHANGED <<fnVars, cartVars, source, input, user_id, text, products, matched, engine,
                 loads, classified>>

\* lines 356-357
FoundProduct ==
  /\ pc = "matched"
  /\ result.intent = "search_product"
  /\ result' = [result EXCEPT !.message = "found"]
  /\ pc' = "related"
  /\ UNCHANGED <<fnVars, cartVars, source, input, user_id, text, products, matched, calls,
                 engine, loads, classified>>

\* lines 359-364: the related recommendations, outside any try
RelatedRecommendations ==
  /\ pc = "related"
  /\ \E loaded \in {load_products(source)} :
       \E related \in {get_related_recommendations(loaded, matched.product.id, 5)} :
         /\ engine' = Append(engine, [strategy |-> "related", catalog |-> loaded,
                                      value |-> related.value,
                                      raised |-> related.raised])
         /\ IF related.raised
              THEN /\ pc' = "raised"
                   /\ UNCHANGED result
              ELSE /\ pc' = "returned"
                   /\ result' = [result EXCEPT !.recommendations = related.value]
  /\ loads' = loads + 1
  /\ UNCHANGED <<fnVars, cartVars, source, input, user_id, text, products, matched, calls,
                 classified>>

\* the result of the fallback, with the similar products left out
SimilarResultUnattached(res, similar) ==
  IF similar # <<>>
    THEN [res EXCEPT !.message = "similar", !.confidence = 50]
    ELSE [res EXCEPT !.message = "no_match"]

\* lines 367-374: the result of the fallback
SimilarResult(res, similar) ==
  IF similar # <<>>
    THEN [res EXCEPT !.recommendations = similar, !.message = "similar",
                     !.confidence = 50]
    ELSE [res EXCEPT !.message = "no_match"]

\* lines 366-376
SimilarProducts ==
  /\ pc = "unmatched"
  /\ \E loaded \in {load_products(source)} :
       \E similar \in {get_similar_products(loaded, text, 5)} :
         /\ engine' = Append(engine, [strategy |-> "similar", catalog |-> loaded,
                                      value |-> similar])
         /\ result' = SimilarResult(result, similar)
  /\ loads' = loads + 1
  /\ pc' = "returned"
  /\ UNCHANGED <<fnVars, cartVars, source, input, user_id, text, products, matched, calls,
                 classified>>

\* lines 17-36: products.json is written, removed or damaged by its owner
\* while an invocation is under way; every load_products call reads it anew
SourceChanges ==
  /\ pc \in {"dispatch", "matched", "related", "unmatched"}
  /\ source' \in Sources \ {source}
  /\ UNCHANGED <<fnVars, cartVars, pc, input, user_id, text, result, products, matched, calls,
                 engine, loads, classified>>

Next ==
  \/ \E inp \in CommandInputs, uid \in UserIds : ParseStart(inp, uid)
  \/ \E outcome \in Outcomes, reply \in CartReplies : ViewCart(outcome, reply)
  \/ \E outcome \in Outcomes : ClearCart(outcome)
  \/ ListProducts
  \/ ResolveProduct
  \/ \E outcome \in Outcomes : CartAdd(outcome)
  \/ \E outcome \in Outcomes : CartRemove(outcome)
  \/ FoundProduct
  \/ RelatedRecommendations
  \/ SimilarProducts
  \/ SourceChanges

Spec == Init /\ [][Next]_vars

\* ------------------------- the recommendation functions, applied to catalogs
\* the ids of the products, by their place in the catalog
ProductIds == <<"p1", "p2", "p3", "p4", "p5", "p6">>

Categories == {"fruits", "dairy"}

Prices == {0, 100, 105, 110, 160}

\* the loaded products of a catalog of k items
CatalogsOf(k, categories, prices) ==
  {[i \in 1..k |-> [id |-> ProductIds[i], name |-> "Item", price |-> f[i][2],
                    image |-> "", category |-> f[i][1]]] \o <<>> :
     f \in [1..k -> categories \X prices]}

Catalogs == UNION {CatalogsOf(k, Categories, Prices) : k \in 0..MaxCatalog}

Limits == {1, 2, 5}

RelatedInit ==
  /\ fnText = ""
  /\ fnDone = {}
  /\ fnIntent = ""
  /\ fnQty = 1
  /\ fnCatalog \in Catalogs
  /\ fnAnchor \in {ProductIds[i] : i \in 1..MaxCatalog}
  /\ fnHistory = <<>>
  /\ fnLimit \in Limits
  /\ fnRecs = <<>>
  /\ source = [status |-> "missing", data |-> <<>>]
  /\ CmdIdle
  /\ CartIdle

CallRelated ==
  /\ "get_related_recommendations" \notin fnDone
  /\ fnRecs' = get_related_recommendations(fnCatalog, fnAnchor, fnLimit)
  /\ fnDone' = {"get_related_recommendations"}
  /\ UNCHANGED <<fnText, fnIntent, fnQty, fnCatalog, fnAnchor, fnHistory, fnLimit,
                 cmdVars, cartVars>>

RelatedNext == CallRelated

SpecRelated == RelatedInit /\ [][RelatedNext]_vars

\* the catalogs get_personalized_recommendations works on: three categories
PersonalCatalogs ==
  UNION {CatalogsOf(k, Categories \cup {"bakery"}, {100}) : k \in 0..MaxCatalog}

\* a purchase of the history: its product_id and category, either of which
\* may be missing
HistoryItems ==
  {[product_id |-> "p1", category |-> "fruits"],
   [product_id |-> "p2", category |-> "dairy"],
   [product_id |-> "p2", category |-> "fruits"],
   [product_id |-> "p3", category |-> None],
   [product_id |-> None, category |-> "dairy"]}

Histories == UNION {[1..k -> HistoryItems] : k \in 0..MaxHistory}

PersonalInit ==
  /\ fnText = ""
  /\ fnDone = {}
  /\ fnIntent = ""
  /\ fnQty = 1
  /\ fnCatalog \in PersonalCatalogs
  /\ fnAnchor = None
  /\ fnHistory \in Histories
  /\ fnLimit \in Limits
  /\ fnRecs = <<>>
  /\ source = [status |-> "missing", data |-> <<>>]
  /\ CmdIdle
  /\ CartIdle

CallPersonalized ==
  /\ "get_personalized_recommendations" \notin fnDone
  /\ fnRecs' = get_personalized_recommendations(fnCatalog, fnHistory, fnLimit)
  /\ fnDone' = {"get_personalized_recommendations"}
  /\ UNCHANGED <<fnText, fnIntent, fnQty, fnCatalog, fnAnchor, fnHistory, fnLimit,
                 cmdVars, cartVars>>

PersonalNext == CallPersonalized

SpecPersonal == PersonalInit /\ [][PersonalNext]_vars

\* --------------------------------------------------------- the cart routes
\* the products the requests name
CartProducts ==
  {[productId |-> "p1", productName |-> "Apple"],
   [productId |-> "p2", productName |-> "Pear"]}

Quantities == {1, 2}

\* lines 55-74: the quantity is added to the first item of the product, or a
\* new item is appended
AddItem(items, req) ==
  LET hits == {i \in 1..Len(items) : items[i].productId = req.productId} IN
    IF hits # {}
      THEN [items EXCEPT ![CHOOSE i \in hits : \A k \in hits : i <= k].qty = @ + req.qty]
      ELSE Append(items, [productId |-> req.productId, productName |-> req.productName,
                          qty |-> req.qty])

\* lines 106-112: the items of the product, by id or by lowercased name, are
\* dropped
RemoveItems(items, req) ==
  SelectSeq(items,
            LAMBDA item :
              ~(\/ (req.productId # None /\ item.productId = req.productId)
                \/ (req.productName # None
                    /\ Lower(item.productName) = Lower(req.productName))))

CartInit ==
  /\ FnIdle
  /\ source = [status |-> "missing", data |-> <<>>]
  /\ CmdIdle
  /\ CartIdle

\* add_to_cart, lines 40-74: the cart is read and changed in memory
AddFindOne(r, product, qty) ==
  /\ cartReqs[r].pc = "idle"
  /\ \E req \in {[pc |-> "update", op |-> "add", productId |-> product.productId,
                    productName |-> product.productName, qty |-> qty,
                    items |-> <<>>]} :
       cartReqs' = [cartReqs EXCEPT ![r] = [req EXCEPT !.items = AddItem(cartDb.items, req)]]
  /\ UNCHANGED <<fnVars, cmdVars, cartDb, completed>>

\* add_to_cart, lines 76-92: the items are written back, the document
\* created when there is none
AddUpdateOne(r) ==
  /\ cartReqs[r].pc = "update"
  /\ cartReqs[r].op = "add"
  /\ cartDb' = [exists |-> TRUE, items |-> cartReqs[r].items]
  /\ cartReqs' = [cartReqs EXCEPT ![r].pc = "done"]
  /\ completed' = Append(completed, [op |-> "add", productId |-> cartReqs[r].productId,
                                     qty |-> cartReqs[r].qty])
  /\ UNCHANGED <<fnVars, cmdVars>>

\* remove_from_cart, lines 97-114: the cart is read; no cart: "Cart not
\* found"; otherwise the items are filtered in memory
RemoveFindOne(r, product) ==
  /\ cartReqs[r].pc = "idle"
  /\ \E req \in {[pc |-> "update", op |-> "remove", productId |-> product.productId,
                    productName |-> product.productName, qty |-> 0,
                    items |-> <<>>]} :
       IF cartDb.exists
         THEN /\ cartReqs' = [cartReqs EXCEPT
                                ![r] = [req EXCEPT !.items = RemoveItems(cartDb.items, req)]]
              /\ UNCHANGED completed
         ELSE /\ cartReqs' = [cartReqs EXCEPT ![r] = [req EXCEPT !.pc = "done"]]
              /\ completed' = Append(completed, [op |-> "remove",
                                                 productId |-> product.productId,
                                                 qty |-> 0])
  /\ UNCHANGED <<fnVars, cmdVars, cartDb>>

\* remove_from_cart, lines 116-131: the items are written back
RemoveUpdateOne(r) ==
  /\ cartReqs[r].pc = "update"
  /\ cartReqs[r].op = "remove"
  /\ cartDb' = IF cartDb.exists THEN [cartDb EXCEPT !.items = cartReqs[r].items]
               ELSE cartDb
  /\ cartReqs' = [cartReqs EXCEPT ![r].pc = "done"]
  /\ completed' = Append(completed, [op |-> "remove",
                                     productId |-> cartReqs[r].productId, qty |-> 0])
  /\ UNCHANGED <<fnVars, cmdVars>>

\* clear_cart, lines 134-151: the items are set to [], the document created
\* when there is none
ClearUpdateOne(r) ==
  /\ cartReqs[r].pc = "idle"
  /\ cartDb' = [exists |-> TRUE, items |-> <<>>]
  /\ cartReqs' = [cartReqs EXCEPT ![r] = [IdleRequest EXCEPT !.pc = "done", !.op = "clear"]]
  /\ completed' = Append(completed, [op |-> "clear", productId |-> None, qty |-> 0])
  /\ UNCHANGED <<fnVars, cmdVars>>

CartNext ==
  \/ \E r \in 1..MaxRequests, product \in CartProducts, qty \in Quantities :
       AddFindOne(r, product, qty)
  \/ \E r \in 1..MaxRequests : AddUpdateOne(r)
  \/ \E r \in 1..MaxRequests, product \in CartProducts : RemoveFindOne(r, product)
  \/ \E r \in 1..MaxRequests : RemoveUpdateOne(r)
  \/ \E r \in 1..MaxRequests : ClearUpdateOne(r)

SpecCart == CartInit /\ [][CartNext]_vars

\* ------------------------------------------------------------------- claims
IntentApplied == "detect_intent" \in fnDone

QuantityApplied == "extract_quantity" \in fnDone

\* C1: every text that contains "show cart" is classified view_cart, whatever
\* other rule keywords it contains.
C1_ShowCartIsViewCart ==
  (IntentApplied /\ Contains(fnText, "show cart")) => fnIntent = "view_cart"

\* "show cart" together with keywords of the add, remove and clear rules
C1_Witness ==
  /\ IntentApplied
  /\ Contains(fnText, "show cart")
  /\ AnyIn(AddWords \cup RemoveWords \cup {"clear"}, fnText)
  /\ fnIntent = "view_cart"

\* C2 as stated: every text that contains "clear cart" or "empty cart" is
\* classified clear_cart, whatever else it contains.
C2_ClearCartAlways ==
  (IntentApplied /\ AnyIn({"clear cart", "empty cart"}, fnText))
    => fnIntent = "clear_cart"

\* C2 amended: every text that contains "clear cart" or "empty cart", and whose
\* corrected form contains no view-cart phrase, is classified clear_cart, also
\* when it contains "remove".
C2_ClearCartUnlessViewCart ==
  (/\ IntentApplied
   /\ AnyIn({"clear cart", "empty cart"}, fnText)
   /\ ~AnyIn(ViewCartPhrases, correct_voice_input(fnText)))
    => fnIntent = "clear_cart"

C2_Witness ==
  /\ IntentApplied
  /\ AnyIn({"clear cart", "empty cart"}, fnText)
  /\ Contains(fnText, "remove")
  /\ fnIntent = "clear_cart"

\* C3: every text in which a phrase of the view-cart set appears as a substring
\* of the input, "my cart" included, is classified view_cart.
C3_ViewCartPhraseInInput ==
  (IntentApplied /\ AnyIn(ViewCartPhrases, fnText)) => fnIntent = "view_cart"

\* no word of the text is a key of the number-word table
NoNumberWord(t) ==
  \A i \in 1..Len(Split(Lower(t))) :
    \A k \in 1..Len(word_to_num) : Split(Lower(t))[i] # word_to_num[k][1]

\* C4: the three example quantities; and a text with no number-word as a word
\* and a standalone digit run yields the value of its first such run.
C4_DigitFallback ==
  QuantityApplied =>
    /\ fnText = "add two bananas" => fnQty = 2
    /\ fnText = "add 5 apples" => fnQty = 5
    /\ fnText = "add apple" => fnQty = 1
    /\ (NoNumberWord(fnText) /\ HasDigitRun(fnText))
         => fnQty = DigitsToInt(FirstDigitRun(fnText))

\* C5: extract_quantity returns an integer >= 1 for every text.
C5_QuantityPositive == QuantityApplied => fnQty >= 1

\* the corrected text the rules of detect_intent are matched on
Normalized == correct_voice_input(Lower(fnText))

\* the rules in their order, with the intent of each
RuleOrder ==
  << <<ViewCartPhrases, "view_cart">>, <<ClearCartPhrases, "clear_cart">>,
     <<AddWords, "add_to_cart">>, <<RemoveWords, "remove_from_cart">>,
     <<SearchWords, "search_product">>, <<ListPhrases, "list_products">> >>

\* which rules match the corrected text n
RuleHits(n) == [r \in 1..Len(RuleOrder) |-> AnyIn(RuleOrder[r][1], n)] \o <<>>

\* the first rule that matches decides; no rule: search_product
FirstMatchWins(hits) ==
  /\ \A r \in 1..Len(RuleOrder) :
       (hits[r] /\ \A q \in 1..(r - 1) : ~hits[q]) => fnIntent = RuleOrder[r][2]
  /\ (\A r \in 1..Len(RuleOrder) : ~hits[r]) => fnIntent = "search_product"

\* C17 as stated: classification is first-match-wins over the rule order, and
\* no text makes detect_intent return list_products.
C17_ListUnreachable ==
  IntentApplied =>
    \A hits \in {RuleHits(Normalized)} :
      FirstMatchWins(hits) /\ fnIntent # "list_products"

\* C17 amended: classification is first-match-wins over the rule order;
\* list_products is returned exactly for the texts whose corrected form
\* contains "list", "available" or "all products" and no phrase of rules 1 to
\* 5; a text with "show all" or "what do you have" is caught by an earlier
\* rule.
C17_ListOnlyUnshadowed ==
  IntentApplied =>
    \A n \in {Normalized} :
      \A hits \in {RuleHits(n)} :
        /\ FirstMatchWins(hits)
        /\ fnIntent = "list_products"
             <=> /\ AnyIn({"list", "available", "all products"}, n)
                 /\ \A r \in 1..5 : ~hits[r]
        /\ AnyIn({"show all", "what do you have"}, n) => fnIntent # "list_products"

\* a text classified list_products
C17_Witness ==
  /\ IntentApplied
  /\ fnIntent = "list_products"
  /\ Contains(fnText, "all products")

\* ---------------------------------------------------- claims on parse_command
Returned == pc = "returned"

Finished == pc \in {"returned", "raised"}

DirectIntents == {"view_cart", "clear_cart", "list_products"}

\* the input was not empty and the catalog was loaded non-empty
Dispatched == text # "" /\ products # <<>>

LastEngine == engine[Len(engine)]

\* C6 as stated: the confidence of a returned result is in [0,1] and 1.0 for a
\* performed view/clear/list, exactly score/100 (>= 0.6) for a resolved
\* product, 0.5 for similar products only, 0.0 otherwise; product_id is set
\* exactly when a product was resolved.
C6_ConfidenceIsScore ==
  Returned =>
    /\ result.confidence \in 0..100
    /\ (Dispatched /\ result.intent \in DirectIntents) => result.confidence = 100
    /\ matched.found => /\ result.confidence * matched.score.d = matched.score.n
                        /\ result.confidence >= 60
    /\ (Dispatched /\ result.intent \notin DirectIntents /\ ~matched.found)
         => result.confidence = IF LastEngine.value # <<>> THEN 50 ELSE 0
    /\ ~Dispatched => result.confidence = 0
    /\ (result.product_id # None) <=> matched.found

\* C6 amended: as C6, with the confidence of a resolved product being
\* score/100 rounded to two decimals.
C6_ConfidenceIsRoundedScore ==
  Returned =>
    /\ result.confidence \in 0..100
    /\ (Dispatched /\ result.intent \in DirectIntents) => result.confidence = 100
    /\ matched.found
         => /\ 2 * Abs(result.confidence * matched.score.d - matched.score.n)
                 <= matched.score.d
            /\ result.confidence >= 60
    /\ (Dispatched /\ result.intent \notin DirectIntents /\ ~matched.found)
         => result.confidence = IF LastEngine.value # <<>> THEN 50 ELSE 0
    /\ ~Dispatched => result.confidence = 0
    /\ (result.product_id # None) <=> matched.found

\* a product resolved with a score that is no whole number
C6_Witness ==
  /\ Returned
  /\ matched.found
  /\ matched.score.n % matched.score.d # 0
  /\ result.product_id = matched.product.id

\* C7: parse_command never propagates an exception to its caller.
C7_NeverRaises == pc # "raised"

\* the input is None, or has no word besides the filler words
EmptyInput(inp) ==
  inp.none \/ \A i \in 1..Len(Split(inp.s)) : Lower(Split(inp.s)[i]) \in FillerWords

\* C8: on empty input parse_command returns at once intent unknown,
\* confidence 0.0, quantity 1, no recommendations and the "didn't hear
\* anything" message, without classifying, loading the catalog or calling the
\* cart collaborator; and intent unknown is returned in no other case.
C8_EmptyInputShortCircuits ==
  pc # "idle" =>
    /\ EmptyInput(input)
         => /\ Returned
            /\ result = [InitialResult EXCEPT !.message = "didnt_hear"]
            /\ ~classified /\ loads = 0 /\ calls = <<>> /\ engine = <<>>
    /\ result.intent = "unknown" => EmptyInput(input)

\* an input of filler words only
C8_Witness ==
  /\ Returned
  /\ ~input.none /\ Split(input.s) # <<>> /\ EmptyInput(input)
  /\ result.intent = "unknown" /\ result.message = "didnt_hear"

\* C9 as stated: every returned invocation on non-empty input with a
\* non-empty catalog has invoked the recommendation engine and attached its
\* result, the view_cart and clear_cart branches included.
C9_AlwaysRecommends ==
  (Returned /\ Dispatched)
    => engine # <<>> /\ result.recommendations = LastEngine.value

\* C9 amended: every returned invocation on non-empty input with a non-empty
\* catalog whose intent is not view_cart or clear_cart has invoked the
\* recommendation engine and attached its result; view_cart and clear_cart
\* return without invoking it, with no recommendations.
C9_RecommendsUnlessCartIntent ==
  (Returned /\ Dispatched)
    => IF result.intent \in {"view_cart", "clear_cart"}
         THEN engine = <<>> /\ result.recommendations = <<>>
         ELSE engine # <<>> /\ result.recommendations = LastEngine.value

\* similar products attached on the fallback path
C9_Witness ==
  /\ Returned /\ Dispatched
  /\ ~matched.found
  /\ result.intent \notin DirectIntents
  /\ result.recommendations # <<>>
  /\ LastEngine.strategy = "similar"

CallsOf(ops) == SelectSeq(calls, LAMBDA c : c.op \in ops)

\* C10: the add operation of the cart collaborator is invoked exactly when the
\* intent is add_to_cart and a product was resolved, once, with the returned
\* quantity and the fields of the resolved product ("add two apples": once,
\* qty 2); search_product and an unresolved product invoke no mutating cart
\* operation.
C10_AddInvokedOnce ==
  Finished =>
    /\ IF result.intent = "add_to_cart" /\ matched.found
         THEN /\ Len(CallsOf({"add"})) = 1
              /\ \E outcome \in Outcomes :
                   CallsOf({"add"})[1] =
                     [op |-> "add", user |-> user_id, outcome |-> outcome,
                      productId |-> result.product_id,
                      productName |-> result.product_name,
                      qty |-> result.quantity,
                      price |-> matched.product.price,
                      category |-> result.category,
                      image |-> matched.product.image]
              /\ matched.product.id = result.product_id
         ELSE CallsOf({"add"}) = <<>>
    /\ (\/ result.intent = "search_product"
        \/ (result.intent \in {"add_to_cart", "remove_from_cart"} /\ ~matched.found))
         => CallsOf({"add", "remove", "clear"}) = <<>>
    /\ (~input.none /\ input.s = "add two apples" /\ Dispatched)
         => Len(CallsOf({"add"})) = 1 /\ CallsOf({"add"})[1].qty = 2

\* "add two apples" against the catalog with the apple product
C10_Witness ==
  /\ Returned
  /\ input = [none |-> FALSE, s |-> "add two apples"]
  /\ result.product_name = "Apple"
  /\ Len(calls) = 1 /\ calls[1].op = "add" /\ calls[1].qty = 2

\* C13: the catalog is read from the external source at most once: further
\* load_products calls reuse the loaded sequence, so the recommendation step of
\* an invocation works on the same catalog as its product-resolution step,
\* also when the source changes in between.
C13_CatalogReadOnce ==
  /\ loads <= 1
  /\ \A i \in 1..Len(engine) : engine[i].catalog = products

\* the add or remove request of the invocation failed
CartCallFailed ==
  /\ Len(calls) = 1
  /\ calls[1].op \in {"add", "remove"}
  /\ calls[1].outcome = "raise"

\* C14: when the add or remove request for a resolved product fails,
\* parse_command does not raise: it returns the intent, slots, confidence and
\* related recommendations of the successful call, and the message with the
\* "cart sync pending" qualifier.
C14_CartFailureAbsorbed ==
  (Finished /\ CartCallFailed) =>
    /\ Returned
    /\ result.message = IF calls[1].op = "add" THEN "added_sync_pending"
                        ELSE "removed_sync_pending"
    /\ result.intent = IF calls[1].op = "add" THEN "add_to_cart"
                       ELSE "remove_from_cart"
    /\ matched.found
    /\ result.product_id = matched.product.id
    /\ result.product_name = matched.product.name
    /\ result.category = matched.product.category
    /\ result.quantity = extract_quantity(text)
    /\ result.confidence \in Confidences(matched.score)
    /\ LastEngine.strategy = "related"
    /\ result.recommendations = LastEngine.value

\* the product-resolution branch was taken
ResolutionTried ==
  Dispatched /\ result.intent \notin DirectIntents /\ pc # "dispatch"

\* the fuzzy score of the text against the name of the i-th product
NameScore(i) == token_set_ratio(text, Lower(products[i].name))

\* C15: in the product-resolution branch a product is bound (its id, name and
\* category set, a cart side effect allowed) exactly when the best fuzzy score
\* over the product names is >= 60; the bound product has the highest score
\* and is the first such product in catalog order; below 60 no product slot
\* is set and the flow goes to the similarity fallback.
C15_BoundIffAccepted ==
  ResolutionTried =>
    LET scores == [i \in 1..Len(products) |-> NameScore(i)] \o <<>> IN
      /\ matched.found
           <=> \E i \in 1..Len(products) : ~ScoreLess(scores[i], Score(60, 1))
      /\ matched.found =>
           \E i \in 1..Len(products) :
             /\ matched.product = products[i]
             /\ ScoreEq(matched.score, scores[i])
             /\ \A k \in 1..Len(products) : ~ScoreLess(scores[i], scores[k])
             /\ \A k \in 1..(i - 1) : ScoreLess(scores[k], scores[i])
             /\ result.product_id = products[i].id
             /\ result.product_name = products[i].name
             /\ result.category = products[i].category
      /\ ~matched.found =>
           /\ result.product_id = None /\ result.product_name = None
           /\ result.category = None
           /\ calls = <<>>
           /\ pc \in {"unmatched", "returned"}
           /\ Returned => LastEngine.strategy = "similar"

\* two products of different names with the highest score, and a second
\* product with the name of the bound one, later in the catalog
C15_Witness ==
  /\ Returned /\ ResolutionTried
  /\ matched.found
  /\ \E i, j \in 1..Len(products) :
       /\ i < j
       /\ matched.product = products[i]
       /\ Lower(products[j].name) # Lower(products[i].name)
       /\ ScoreEq(NameScore(j), matched.score)
  /\ \E i, j \in 1..Len(products) :
       i < j /\ Lower(products[i].name) = Lower(products[j].name)

\* C16: when load_products returns an empty catalog (source missing or
\* unreadable), parse_command on non-empty input returns the "catalog is not
\* available" response for every intent: confidence 0.0, no product slots, no
\* recommendations, and no cart collaborator operation, also for view_cart
\* and clear_cart.
C16_EmptyCatalogTerminal ==
  /\ \A src \in Sources : src.status # "ok" => load_products(src) = <<>>
  /\ (pc # "idle" /\ text # "" /\ products = <<>>) =>
       /\ Returned
       /\ result.message = "catalog_unavailable"
       /\ result.confidence = 0
       /\ result.product_id = None /\ result.product_name = None
       /\ result.category = None
       /\ result.recommendations = <<>>
       /\ result.cart = None
       /\ calls = <<>>
       /\ engine = <<>>
       /\ loads = 1

\* "show cart" with the source unreadable
C16_Witness ==
  /\ Returned
  /\ source.status = "unreadable"
  /\ text # "" /\ products = <<>>
  /\ result.intent = "view_cart"
  /\ result.message = "catalog_unavailable"
  /\ calls = <<>>

\* ------------------------------------ claims on the recommendation functions
RelatedReturned ==
  "get_related_recommendations" \in fnDone /\ ~fnRecs.raised

\* the place of a product of fnCatalog in it
PlaceOf(id) == CHOOSE i \in 1..Len(fnCatalog) : fnCatalog[i].id = id

AnchorPresent == \E i \in 1..Len(fnCatalog) : fnCatalog[i].id = fnAnchor

Anchor == fnCatalog[PlaceOf(fnAnchor)]

\* (50 if same category) + (30 if the relative price difference is below 30%,
\* else 15 if below 50%, else 0), for an anchor of positive price
StatedScore(product) ==
  (IF product.category = Anchor.category THEN 50 ELSE 0)
  + (IF 10 * Abs(product.price - Anchor.price) < 3 * Anchor.price THEN 30
     ELSE IF 10 * Abs(product.price - Anchor.price) < 5 * Anchor.price THEN 15
     ELSE 0)

\* the products of the catalog that may be returned for the anchor
Candidates ==
  {i \in 1..Len(fnCatalog) :
     fnCatalog[i].id # fnAnchor /\ StatedScore(fnCatalog[i]) > 0}

\* C11: whenever get_related_recommendations returns for an anchor in the
\* catalog, it returns the first N of the other products that score above 0,
\* each with its score (50 for the category, 30 or 15 for the price), never
\* the anchor, in descending score with ties in catalog order; so every
\* returned product is same-category or within 50% of the anchor's price, and
\* for an anchor priced 100 a same-category product priced 110 (score 80) is
\* never behind a different-category product priced 105 (score 30).
C11_RelatedScoredAndOrdered ==
  (RelatedReturned /\ AnchorPresent) =>
    /\ Len(fnRecs.value) = Min2(fnLimit, Cardinality(Candidates))
    /\ \A r \in 1..Len(fnRecs.value) :
         LET rec == fnRecs.value[r] IN
           /\ rec.product.id # fnAnchor
           /\ PlaceOf(rec.product.id) \in Candidates
           /\ rec.product = fnCatalog[PlaceOf(rec.product.id)]
           /\ rec.relevance_score = StatedScore(rec.product)
           /\ rec.relevance_score > 0
           /\ \/ rec.product.category = Anchor.category
              \/ 2 * Abs(rec.product.price - Anchor.price) < Anchor.price
           \* every candidate ahead of it in the order comes before it
           /\ \A c \in Candidates :
                (\/ StatedScore(fnCatalog[c]) > rec.relevance_score
                 \/ /\ StatedScore(fnCatalog[c]) = rec.relevance_score
                    /\ c < PlaceOf(rec.product.id))
                  => \E q \in 1..(r - 1) : fnRecs.value[q].product.id = fnCatalog[c].id
    /\ \A c, d \in Candidates :
         (/\ Anchor.price = 100
          /\ fnCatalog[c].category = Anchor.category /\ fnCatalog[c].price = 110
          /\ fnCatalog[d].category # Anchor.category /\ fnCatalog[d].price = 105)
           => /\ StatedScore(fnCatalog[c]) = 80 /\ StatedScore(fnCatalog[d]) = 30
              /\ \A r \in 1..Len(fnRecs.value) :
                   fnRecs.value[r].product.id = fnCatalog[d].id
                     => \E q \in 1..(r - 1) :
                          fnRecs.value[q].product.id = fnCatalog[c].id

\* the anchor priced 100, the different-category product priced 105 ahead of
\* the same-category product priced 110 in the catalog, both returned
C11_Witness ==
  /\ RelatedReturned /\ AnchorPresent
  /\ Anchor.price = 100
  /\ Len(fnRecs.value) = 2
  /\ fnRecs.value[1].relevance_score = 80 /\ fnRecs.value[1].product.price = 110
  /\ fnRecs.value[2].relevance_score = 30 /\ fnRecs.value[2].product.price = 105
  /\ PlaceOf(fnRecs.value[2].product.id) < PlaceOf(fnRecs.value[1].product.id)

PersonalReturned == "get_personalized_recommendations" \in fnDone

Purchased(product) ==
  \E i \in 1..Len(fnHistory) : fnHistory[i].product_id = product.id

HistoryCategories == {fnHistory[i].category : i \in 1..Len(fnHistory)} \ {None}

Frequency(category) ==
  Cardinality({i \in 1..Len(fnHistory) : fnHistory[i].category = category})

\* the history categories in an order of descending frequency
FrequencyOrders ==
  {order \in [1..Cardinality(HistoryCategories) -> HistoryCategories] :
     /\ \A i, j \in DOMAIN order : i # j => order[i] # order[j]
     /\ \A i, j \in DOMAIN order :
          i < j => Frequency(order[i]) >= Frequency(order[j])}

RECURSIVE UnpurchasedByCategory(_, _)
\* the unpurchased products of the categories from the k-th on, category by
\* category, in catalog order within a category
UnpurchasedByCategory(order, k) ==
  IF k > Len(order) THEN <<>>
  ELSE SelectSeq(fnCatalog, LAMBDA p : ~Purchased(p) /\ p.category = order[k])
       \o UnpurchasedByCategory(order, k + 1)

\* the sequence the recommendations are the first N elements of
StatedSequence(order) ==
  UnpurchasedByCategory(order, 1)
  \o SelectSeq(fnCatalog, LAMBDA p : ~Purchased(p) /\ p.category \notin HistoryCategories)

\* C12: get_personalized_recommendations returns the first N elements of: the
\* catalog itself when the history is empty; otherwise the unpurchased products
\* of each history category, categories in descending frequency and products
\* in catalog order, followed by the remaining unpurchased products in catalog
\* order. With a non-empty history the result has at most N products, no
\* duplicate, no product whose id occurs in the history, and no product of a
\* less frequent history category before one of a more frequent one.
C12_PersonalizedSequence ==
  PersonalReturned =>
    /\ fnHistory = <<>> => fnRecs = Take(fnCatalog, fnLimit)
    /\ fnHistory # <<>> =>
         /\ \E order \in FrequencyOrders :
              fnRecs = Take(StatedSequence(order \o <<>>), fnLimit)
         /\ Len(fnRecs) <= fnLimit
         /\ \A i, j \in 1..Len(fnRecs) : i # j => fnRecs[i] # fnRecs[j]
         /\ \A i \in 1..Len(fnRecs) : ~Purchased(fnRecs[i])
         /\ \A i, j \in 1..Len(fnRecs) :
              (/\ i < j
               /\ fnRecs[i].category \in HistoryCategories
               /\ fnRecs[j].category \in HistoryCategories)
                => Frequency(fnRecs[i].category) >= Frequency(fnRecs[j].category)

\* a product of the most frequent category recommended ahead of a product of
\* a less frequent one that precedes it in the catalog, a purchased product
\* left out
C12_Witness ==
  /\ PersonalReturned
  /\ Len(fnRecs) = 2
  /\ fnRecs[1].category \in HistoryCategories
  /\ fnRecs[2].category \in HistoryCategories
  /\ Frequency(fnRecs[1].category) > Frequency(fnRecs[2].category)
  /\ \E i, j \in 1..Len(fnCatalog) :
       i < j /\ fnCatalog[i] = fnRecs[2] /\ fnCatalog[j] = fnRecs[1]
  /\ \E i \in 1..Len(fnCatalog) : Purchased(fnCatalog[i])

\* ------------------------------------------------- claims on the cart routes
\* no request to the cart routes is between its read and its write
NoRequestInFlight == \A r \in 1..MaxRequests : cartReqs[r].pc \in {"idle", "done"}

RECURSIVE AddedSince(_, _)
\* the sum of the qty of the completed adds of the product since the last
\* completed remove of it or clear, over the first n completed requests
AddedSince(productId, n) ==
  IF n = 0 THEN 0
  ELSE IF completed[n].op = "clear" THEN 0
  ELSE IF completed[n].productId # productId THEN AddedSince(productId, n - 1)
  ELSE IF completed[n].op = "remove" THEN 0
  ELSE completed[n].qty + AddedSince(productId, n - 1)

ItemsOf(productId) ==
  {i \in 1..Len(cartDb.items) : cartDb.items[i].productId = productId}

\* C18: the add operation loses no update: once the requests have completed,
\* in any interleaving of their reads and writes, the cart holds one item for
\* each product added and its qty is the sum of the qty of the completed adds
\* of that product since the last remove or clear.
C18_NoLostUpdate ==
  NoRequestInFlight =>
    \A product \in CartProducts :
      LET added == AddedSince(product.productId, Len(completed)) IN
        IF added > 0
          THEN /\ Cardinality(ItemsOf(product.productId)) = 1
               /\ \A i \in ItemsOf(product.productId) : cartDb.items[i].qty = added
          ELSE ItemsOf(product.productId) = {}

====
